---- MODULE Spec2Model ----
(***************************************************************************)
(* A model of the summarization core of text-summary-app                   *)
(* (src/summarizer.py): the sentence deduplicator, the word chunker, the   *)
(* frequency-based extractive selector, the chunk-and-merge abstractive    *)
(* path and the summarize_text facade.                                     *)
(*                                                                         *)
(* A Python str is a sequence of one-character strings.  None is the       *)
(* string "None".                                                          *)
(***************************************************************************)
EXTENDS Integers, Sequences, FiniteSets, TLC

VARIABLES
    entry,      \* the function of summarizer.py the client called
    pc,         \* position inside the call
    text,       \* the text argument
    args,       \* the other arguments of the call, by parameter name
    result,     \* the returned value, or None while nothing was returned
    raised,     \* the exception that left the call, or None
    prev,       \* the value returned by the call before this one, or None
    round,      \* number of calls the client has made so far
    words,      \* _chunk_text: words
    loop_i,     \* _chunk_text: the loop variable i
    chunks,     \* _chunk_text: chunks
    starts,     \* for each member of chunks, the i it was cut at
    sentences,          \* _summarize_extractive: sentences
    sentence_scores,    \* _summarize_extractive: sentence_scores, (score, s) pairs
    selected,           \* _summarize_extractive: selected
    total_words,        \* _summarize_extractive: total_words
    next_scored,        \* index in sentence_scores the selection loop is at
    pipe,       \* the module global _transformer_pipe
    next_chunk, \* _summarize_abstractive_transformers: index of c in chunks
    outputs,    \* _summarize_abstractive_transformers: outputs
    combined,   \* _summarize_abstractive_transformers: combined
    calls       \* the constructions and invocations of a generative backend so far

callVars == <<entry, args>>
clientVars == <<prev, round>>
chunkVars == <<words, loop_i, chunks, starts>>
extractVars == <<sentences, sentence_scores, selected, total_words, next_scored>>
mergeVars == <<next_chunk, outputs, combined>>
backendVars == <<pipe, calls>>

vars ==
    <<entry, pc, text, args, result, raised, prev, round, words, loop_i, chunks,
      starts, sentences, sentence_scores, selected, total_words, next_scored,
      pipe, next_chunk, outputs, combined, calls>>

None == "None"

(***************************************************************************)
(* Characters and the str methods the code uses.                           *)
(***************************************************************************)

\* what \s, str.strip() and str.split() treat as whitespace
Whitespace == {" ", "\n"}

\* the sentence terminators of the look-behind class [.!?\n]
Terminators == {".", "!", "?"}

\* the whole look-behind class [.!?\n]
Boundary == Terminators \cup {"\n"}

IsSpace(c) == c \in Whitespace

\* str.lower() on one character
LowerChar(c) ==
    CASE c = "A" -> "a"
      [] c = "B" -> "b"
      [] c = "T" -> "t"
      [] OTHER -> c

\* str.lower()
Lower(s) == [i \in 1..Len(s) |-> LowerChar(s[i])]

\* the ascending sequence of the members of S that lie in lo..hi
RECURSIVE Ascending(_, _, _)
Ascending(S, lo, hi) ==
    IF lo > hi THEN <<>>
    ELSE IF lo = hi THEN (IF lo \in S THEN <<lo>> ELSE <<>>)
    ELSE LET mid == (lo + hi) \div 2
         IN  Ascending(S, lo, mid) \o Ascending(S, mid + 1, hi)

\* first index of the whitespace run that holds index i
RECURSIVE RunStart(_, _)
RunStart(s, i) ==
    IF i > 1 /\ IsSpace(s[i - 1]) THEN RunStart(s, i - 1) ELSE i

\* last index of the whitespace run that holds index i
RECURSIVE RunEnd(_, _)
RunEnd(s, i) ==
    IF i < Len(s) /\ IsSpace(s[i + 1]) THEN RunEnd(s, i + 1) ELSE i

\* str.strip(): drop the whitespace runs at both ends
Strip(s) ==
    LET n == Len(s)
        first == IF n > 0 /\ IsSpace(s[1]) THEN RunEnd(s, 1) + 1 ELSE 1
        last == IF n > 0 /\ IsSpace(s[n]) THEN RunStart(s, n) - 1 ELSE n
    IN  SubSeq(s, first, last)

\* (?<=[.!?\n])\s+ can match starting at index i
LookBehindSpace(s, i) ==
    i >= 2 /\ IsSpace(s[i]) /\ s[i - 1] \in Boundary

\* index i starts a match of (?<=[.!?\n])\s+ in a left-to-right scan: the
\* pattern matches at i and at no earlier index of the same whitespace run
\* (a match is greedy, it takes the rest of the run with it)
IsMatchStart(s, i) ==
    /\ LookBehindSpace(s, i)
    /\ \A j \in RunStart(s, i)..(i - 1) : ~LookBehindSpace(s, j)

\* re.split(r"(?<=[.!?\n])\s+", s): the pieces between the matches, empty
\* pieces included
ReSplit(s) ==
    LET n == Len(s)
        m == Ascending({i \in 1..n : IsMatchStart(s, i)}, 1, n)
        k == Len(m)
        from(j) == IF j = 1 THEN 1 ELSE RunEnd(s, m[j - 1]) + 1
        to(j) == IF j = k + 1 THEN n ELSE m[j] - 1
    IN  [j \in 1..(k + 1) |-> SubSeq(s, from(j), to(j))]

\* sep.join(parts)
RECURSIVE JoinRange(_, _, _, _)
JoinRange(sep, parts, lo, hi) ==
    IF lo > hi THEN <<>>
    ELSE IF lo = hi THEN parts[lo]
    ELSE LET mid == (lo + hi) \div 2
         IN  JoinRange(sep, parts, lo, mid) \o sep \o JoinRange(sep, parts, mid + 1, hi)

Join(sep, parts) == JoinRange(sep, parts, 1, Len(parts))

(***************************************************************************)
(* _deduplicate_sentences                                                  *)
(***************************************************************************)

\* the key under which a sentence is remembered as seen
DedupKeyExact(norm) == norm
DedupKey(norm) == Lower(norm)

\* the loop over the split sentences: seen is the set of keys met so far,
\* ordered the list of kept sentences
RECURSIVE DedupLoop(_, _, _, _)
DedupLoop(sents, k, seen, ordered) ==
    IF k > Len(sents) THEN ordered
    ELSE LET norm == Strip(sents[k])
             key == DedupKey(norm)
         IN  IF norm = <<>> THEN DedupLoop(sents, k + 1, seen, ordered)
             ELSE IF key \in seen THEN DedupLoop(sents, k + 1, seen, ordered)
             ELSE DedupLoop(sents, k + 1, seen \cup {key}, Append(ordered, norm))

DeduplicateSentences(t) == Join(<<" ">>, DedupLoop(ReSplit(t), 1, {}, <<>>))

(***************************************************************************)
(* _chunk_text                                                             *)
(***************************************************************************)

Max(a, b) == IF a >= b THEN a ELSE b

Min(a, b) == IF a <= b THEN a ELSE b

\* the maximal runs of the characters of s that satisfy In, left to right
Runs(s, In(_)) ==
    LET n == Len(s)
        b == Ascending({j \in 1..n : In(s[j]) /\ (j = 1 \/ ~In(s[j - 1]))}, 1, n)
        e == Ascending({j \in 1..n : In(s[j]) /\ (j = n \/ ~In(s[j + 1]))}, 1, n)
    IN  [w \in 1..Len(b) |-> SubSeq(s, b[w], e[w])]

\* str.split(): the maximal runs of non-whitespace characters
PySplit(s) == Runs(s, LAMBDA c : ~IsSpace(c))

\* list[start:stop] for start >= 0: a negative stop counts from the end, and
\* both ends are clipped to the list
PySlice(list, start, stop) ==
    LET n == Len(list)
        lo == Min(start, n)
        hi == IF stop < 0 THEN Max(0, n + stop) ELSE Min(stop, n)
    IN  SubSeq(list, lo + 1, hi)

\* step = max(1, max_words - overlap_words)
StrideSum(max_words, overlap_words) == Max(1, max_words + overlap_words)
Stride(max_words, overlap_words) == Max(1, max_words - overlap_words)

\* chunk = " ".join(words[i : i + max_words])
ChunkAtShort(list, start, max_words) ==
    Join(<<" ">>, PySlice(list, start, start + max_words - 1))
ChunkAt(list, start, max_words) ==
    Join(<<" ">>, PySlice(list, start, start + max_words))

(***************************************************************************)
(* _summarize_extractive                                                   *)
(***************************************************************************)

\* the characters \w matches, among those the texts are written in
WordChars == {"a", "b", "c", "A", "B"}

IsWordChar(c) == c \in WordChars

\* re.findall(r"\w+", s)
FindWords(s) == Runs(s, IsWordChar)

\* sentences = [s.strip() for s in re.split(...) if len(s.strip()) > 0]
SplitSentences(t) ==
    LET pieces == ReSplit(t)
        trimmed == [j \in 1..Len(pieces) |-> Strip(pieces[j])]
    IN  SelectSeq(trimmed, LAMBDA u : Len(u) > 0)

\* freq: the number of occurrences of each word longer than two characters
Frequencies(ws) ==
    [w \in {ws[j] : j \in {j \in 1..Len(ws) : ~(Len(ws[j]) <= 2)}} |->
        Cardinality({j \in 1..Len(ws) : ws[j] = w})]

\* freq.get(w, 0)
FreqGet(freq, w) == IF w \in DOMAIN freq THEN freq[w] ELSE 0

\* sum(freq.get(w, 0) for w in sw[lo..hi])
RECURSIVE SumFreq(_, _, _, _)
SumFreq(freq, sw, lo, hi) ==
    IF lo > hi THEN 0
    ELSE IF lo = hi THEN FreqGet(freq, sw[lo])
    ELSE LET mid == (lo + hi) \div 2
         IN  SumFreq(freq, sw, lo, mid) + SumFreq(freq, sw, mid + 1, hi)

\* score = sum / len(sw) ** 0.8, kept as the pair (sum, len(sw)).
\* x >= y for two such scores: a / m^0.8 >= b / n^0.8 iff a^5 n^4 >= b^5 m^4
ScoreGE(x, y) ==
    (x.sum ^ 5) * (y.len ^ 4) >= (y.sum ^ 5) * (x.len ^ 4)

\* the (score, s) pairs of the sentences that hold a word, in document order
RECURSIVE ScoreSentences(_, _, _)
ScoreSentences(freq, sents, n) ==
    IF n = 0 THEN <<>>
    ELSE LET sw == FindWords(Lower(sents[n]))
             before == ScoreSentences(freq, sents, n - 1)
         IN  IF sw = <<>> THEN before
             ELSE Append(before,
                         [score |-> [sum |-> SumFreq(freq, sw, 1, Len(sw)), len |-> Len(sw)],
                          s |-> sents[n]])

\* list.sort(key=score, reverse=True) is stable: a pair goes behind every
\* pair of the same or a higher score that came before it
InsertByScore(sorted, x) ==
    LET ahead == Cardinality({j \in 1..Len(sorted) : ScoreGE(sorted[j].score, x.score)})
    IN  SubSeq(sorted, 1, ahead) \o <<x>> \o SubSeq(sorted, ahead + 1, Len(sorted))

InDocumentOrder(pairs, n) == pairs
RECURSIVE SortByScore(_, _)
SortByScore(pairs, n) ==
    IF n = 0 THEN <<>> ELSE InsertByScore(SortByScore(pairs, n - 1), pairs[n])

\* if total_words + w <= max_length or total_words == 0
AcceptsAlways(total, w, max_length) == TRUE
Accepts(total, w, max_length) == total + w <= max_length \/ total = 0

\* if not selected: selected = sentences[:3]
SelectedAsIs(sel, sents) == sel
SelectedOrFirst(sel, sents) ==
    IF sel = <<>> THEN SubSeq(sents, 1, Min(3, Len(sents))) ELSE sel

(***************************************************************************)
(* _summarize_abstractive_transformers and summarize_text                  *)
(***************************************************************************)

\* local_max = max(20, min(max_length, int(c_words * 0.6)))
LocalMax(c_words, max_length) ==
    Max(20, Min(max_length, (c_words * 6) \div 10))

\* local_min = max(5, min(min_length, max(local_max - 40, 5))), and
\* max(5, local_max - 5) if that is not below local_max
LocalMinUnclamped(c_words, min_length, max_length) ==
    Min(min_length, Max(LocalMax(c_words, max_length) - 40, 5))
LocalMin(c_words, min_length, max_length) ==
    LET local_max == LocalMax(c_words, max_length)
        local_min == Max(5, Min(min_length, Max(local_max - 40, 5)))
    IN  IF local_min >= local_max THEN Max(5, local_max - 5) ELSE local_min

\* the fallback of a chunk whose call failed: " ".join(safe[:2]).strip()
FirstSentenceOnly(c) == Strip(Join(<<" ">>, PySlice(ReSplit(c), 0, 1)))
FirstSentences(c) == Strip(Join(<<" ">>, PySlice(ReSplit(c), 0, 2)))

\* where the loop over the chunks goes after chunk k of n, whose call failed
\* or not: the except clause is inside the loop
AfterChunkStopOnFailure(failed, k, n) ==
    IF failed \/ k = n THEN "combine" ELSE "chunk_calls"
AfterChunk(failed, k, n) == IF k = n THEN "combine" ELSE "chunk_calls"

\* num_beams of the second pass: max(4, num_beams)
RefineBeamsAsGiven(num_beams) == num_beams
RefineBeams(num_beams) == Max(4, num_beams)

\* where summarize_text goes with the stripped text t
DispatchModeFirst(t, mode, provider) ==
    IF mode = "extractive" THEN "_summarize_extractive"
    ELSE IF mode = "abstractive"
         THEN IF provider = "OPENAI" THEN "_summarize_abstractive_openai"
              ELSE "_summarize_abstractive_transformers"
    ELSE IF t = <<>> THEN "done"
    ELSE "raised"
DispatchElseExtractive(t, mode, provider) ==
    IF t = <<>> THEN "done"
    ELSE IF mode = "abstractive"
         THEN IF provider = "OPENAI" THEN "_summarize_abstractive_openai"
              ELSE "_summarize_abstractive_transformers"
    ELSE "_summarize_extractive"
Dispatch(t, mode, provider) ==
    IF t = <<>> THEN "done"
    ELSE IF mode = "extractive" THEN "_summarize_extractive"
    ELSE IF mode = "abstractive"
         THEN IF provider = "OPENAI" THEN "_summarize_abstractive_openai"
              ELSE "_summarize_abstractive_transformers"
    ELSE "raised"

\* ValueError(f"Unknown mode: {mode}")
UnknownMode(mode) == [type |-> "ValueError", message |-> <<"Unknown mode: ", mode>>]

\* RuntimeError: the environment variable OPENAI_API_KEY is not set
MissingKey == [type |-> "RuntimeError", message |-> <<"OPENAI_API_KEY">>]

\* whatever a backend, or the import or construction of one, raises
BackendError(what) == [type |-> "Exception", message |-> <<what>>]

\* the models _get_transformer_pipeline tries, in order
PreferredModel == "facebook/bart-large-cnn"

LighterModel == "sshleifer/distilbart-cnn-12-6"

\* the record of pipeline("summarization", model=...)
Construction(model, built) == [fn |-> "pipeline", model |-> model, ok |-> built]

\* the record of pipe(t, min_length=..., max_length=..., num_beams=..., ...):
\* returned is the summary_text, or None when the call raised
Invocation(stage, t, lo, hi, beams, a, returned) ==
    [fn |-> "pipe", stage |-> stage, text |-> t, min_length |-> lo,
     max_length |-> hi, num_beams |-> beams,
     no_repeat_ngram_size |-> a.no_repeat_ngram_size,
     length_penalty |-> a.length_penalty, returned |-> returned]

\* the record of client.chat.completions.create(...)
Completion(t, a, returned) ==
    [fn |-> "openai", text |-> t, min_length |-> a.min_length,
     max_length |-> a.max_length, temperature |-> a.temperature,
     model |-> a.openai_model, returned |-> returned]

(***************************************************************************)
(* Inputs                                                                  *)
(***************************************************************************)

\* all strings over the characters C of length at most n
StringsUpTo(C, n) == UNION {[1..k -> C] : k \in 0..n}

\* longest text handed to the deduplicator
MaxLen == 5

\* longest text handed to the deduplicator when it is applied twice
MaxTwiceLen == 8

DedupChars == {"a", "A", ".", " ", "\n"}

TwiceChars == {"a", ".", " ", "\n"}

\* a text of n one-character words separated by single spaces; every
\* SentenceWords-th word is a full stop, the others alternate between a and b
SentenceWords == 100

Token(w) ==
    IF w % SentenceWords = 0 THEN "."
    ELSE IF w % 2 = 1 THEN "a" ELSE "b"

WordsText(n) ==
    [j \in 1..(2 * n - 1) |-> IF j % 2 = 0 THEN " " ELSE Token((j + 1) \div 2)]

\* the arguments _summarize_abstractive_transformers hands to _chunk_text
ChunkMaxWords == 450

ChunkOverlapWords == 60

\* most words of a short text handed to _chunk_text
MaxWords == 6

\* largest max_words and overlap_words tried on the short texts
MaxWindow == 4

\* the long texts hold up to MaxStrides whole strides of the (450, 60) window
\* and a remainder on either side of each boundary of the window
MaxStrides == 2

LongWordCounts ==
    {c * Stride(ChunkMaxWords, ChunkOverlapWords) + d :
        c \in 0..MaxStrides,
        d \in {1, ChunkOverlapWords, ChunkOverlapWords + 1,
               Stride(ChunkMaxWords, ChunkOverlapWords)}}

\* short texts: generated ones, and every text of up to three characters,
\* with leading, trailing and repeated whitespace
ShortTexts ==
    {WordsText(n) : n \in 0..MaxWords} \cup StringsUpTo({"a", " ", "\n"}, 3)

LongTexts == {WordsText(n) : n \in LongWordCounts}

\* the pieces the texts handed to the extractive selector are written with: a
\* word that counts towards the frequencies and one too short to, each inside
\* or at the end of a sentence, a sentence without a word, and a line break
Pieces ==
    { <<"a", "a", "a", " ">>, <<"a", "a", "a", ".", " ">>,
      <<"b", " ">>, <<"b", ".", " ">>, <<".", " ">>, <<"\n", " ">> }

\* most pieces in such a text
MaxPieces == 4

\* largest max_length handed to the extractive selector
MaxLength == 3

RECURSIVE Concat(_, _)
Concat(parts, n) == IF n = 0 THEN <<>> ELSE Concat(parts, n - 1) \o parts[n]

PieceTexts == {Concat(p, Len(p)) : p \in StringsUpTo(Pieces, MaxPieces)}

\* longest text of whitespace only handed to summarize_text
MaxBlank == 2

\* most pieces in a short text handed to summarize_text
MaxFacadePieces == 2

BlankTexts == StringsUpTo(Whitespace, MaxBlank)

\* short texts, bare and with whitespace around them
FacadeShortTexts ==
    LET bare == {Concat(p, Len(p)) : p \in StringsUpTo(Pieces, MaxFacadePieces)}
    IN  bare \cup {<<" ">> \o t \o <<"\n">> : t \in bare}

\* long texts: the shortest that is cut into two chunks, and one of two whole
\* windows, which is cut into three
FacadeLongTexts == {WordsText(ChunkMaxWords + 1), WordsText(2 * ChunkMaxWords)}

\* the length choices of the caller: short -> (60, 120), and a smaller pair
LengthChoices == {<<60, 120>>, <<5, 10>>}

\* the tuning parameters of the caller: a beam search narrower than the
\* second pass asks for, and a wider one with the default n-gram size and
\* length penalty
Tunings ==
    { [num_beams |-> 2, no_repeat_ngram_size |-> 2, length_penalty |-> "2.0"],
      [num_beams |-> 6, no_repeat_ngram_size |-> 3, length_penalty |-> "1.1"] }

\* what a generative backend returns when it returns
GeneratedTexts ==
    { <<"s", ".">>, <<" ", "t", ".", " ", "T", ".", " ", "u", ".", "\n">> }

\* the arguments of a call that takes only text
NoArgs == [max_words |-> None, overlap_words |-> None]

\* no function has set its local variables yet
NoLocals ==
    /\ raised = None
    /\ words = <<>>
    /\ loop_i = 0
    /\ chunks = <<>>
    /\ starts = <<>>
    /\ sentences = <<>>
    /\ sentence_scores = <<>>
    /\ selected = <<>>
    /\ total_words = 0
    /\ next_scored = 1
    /\ next_chunk = 1
    /\ outputs = <<>>
    /\ combined = <<>>
    /\ calls = <<>>

\* "A. b. A. c.", the units "A.", "b.", "A.", "c."
DedupExample == <<"A", ".", " ", "b", ".", " ", "A", ".", " ", "c", ".">>

(***************************************************************************)
(* A client that calls _deduplicate_sentences, possibly a second time on   *)
(* what the first call returned.                                           *)
(***************************************************************************)

InitDedup ==
    /\ entry = "_deduplicate_sentences"
    /\ args = NoArgs
    /\ pipe = None
    /\ NoLocals
    /\ pc = "_deduplicate_sentences"
    /\ text \in StringsUpTo(DedupChars, MaxLen) \cup {DedupExample}
    /\ result = None
    /\ prev = None
    /\ round = 1

InitTwice ==
    /\ entry = "_deduplicate_sentences"
    /\ args = NoArgs
    /\ pipe = None
    /\ NoLocals
    /\ pc = "_deduplicate_sentences"
    /\ text \in StringsUpTo(TwiceChars, MaxTwiceLen)
    /\ result = None
    /\ prev = None
    /\ round = 1

\* one call of _deduplicate_sentences(text)
Deduplicate ==
    /\ pc = "_deduplicate_sentences"
    /\ result' = DeduplicateSentences(text)
    /\ pc' = "done"
    /\ UNCHANGED <<callVars, text, raised, clientVars, chunkVars, extractVars, mergeVars, backendVars>>

\* the client hands the returned text to _deduplicate_sentences again
Reapply ==
    /\ entry = "_deduplicate_sentences"
    /\ pc = "done"
    /\ round = 1
    /\ text' = result
    /\ prev' = result
    /\ result' = None
    /\ round' = 2
    /\ pc' = "_deduplicate_sentences"
    /\ UNCHANGED <<callVars, raised, chunkVars, extractVars, mergeVars, backendVars>>

NextDedup == Deduplicate

NextTwice == Deduplicate \/ Reapply

SpecDedup == InitDedup /\ [][NextDedup]_vars

SpecTwice == InitTwice /\ [][NextTwice]_vars

(***************************************************************************)
(* A client that calls _chunk_text(text, max_words, overlap_words).        *)
(***************************************************************************)

InitChunk ==
    /\ entry = "_chunk_text"
    /\ pc = "_chunk_text"
    /\ \/ /\ text \in ShortTexts
          /\ \E m, o \in (-1)..MaxWindow :
                args = [max_words |-> m, overlap_words |-> o]
       \/ /\ text \in ShortTexts \cup LongTexts
          /\ args = [max_words |-> ChunkMaxWords, overlap_words |-> ChunkOverlapWords]
    /\ result = None
    /\ prev = None
    /\ round = 1
    /\ pipe = None
    /\ NoLocals

\* words = text.split(); chunks = []; the loop starts at i = 0
ChunkEnter ==
    /\ pc = "_chunk_text"
    /\ words' = PySplit(text)
    /\ chunks' = <<>>
    /\ starts' = <<>>
    /\ loop_i' = 0
    /\ pc' = "chunk_loop"
    /\ UNCHANGED <<callVars, text, result, raised, clientVars, extractVars,
                   mergeVars, backendVars>>

\* one iteration of for i in range(0, len(words), step)
ChunkIterate ==
    /\ pc = "chunk_loop"
    /\ loop_i < Len(words)
    /\ LET chunk == ChunkAt(words, loop_i, args.max_words)
       IN  IF Strip(chunk) # <<>>
           THEN /\ chunks' = Append(chunks, chunk)
                /\ starts' = Append(starts, loop_i)
           ELSE UNCHANGED <<chunks, starts>>
    /\ loop_i' = loop_i + Stride(args.max_words, args.overlap_words)
    /\ UNCHANGED <<callVars, pc, text, result, raised, clientVars, words,
                   extractVars, mergeVars, backendVars>>

\* the range is exhausted: return chunks
ChunkReturn ==
    /\ pc = "chunk_loop"
    /\ loop_i >= Len(words)
    /\ entry = "_chunk_text"
    /\ result' = chunks
    /\ pc' = "done"
    /\ UNCHANGED <<callVars, text, raised, clientVars, chunkVars, extractVars, mergeVars, backendVars>>

NextChunk == ChunkEnter \/ ChunkIterate \/ ChunkReturn

SpecChunk == InitChunk /\ [][NextChunk]_vars

(***************************************************************************)
(* A client that calls _summarize_extractive(text, min_length, max_length). *)
(***************************************************************************)

\* max_length from below zero to MaxLength; min_length, which the function
\* never reads, from above max_length to below it
InitExtract ==
    /\ entry = "_summarize_extractive"
    /\ pc = "_summarize_extractive"
    /\ text \in PieceTexts
    /\ \E hi \in (-1)..MaxLength :
          args = [min_length |-> MaxLength - hi, max_length |-> hi]
    /\ result = None
    /\ prev = None
    /\ round = 1
    /\ pipe = None
    /\ NoLocals

\* split the sentences, count the words, score and sort the sentences
ExtractiveEnter ==
    /\ pc = "_summarize_extractive"
    /\ LET sents == SplitSentences(text)
           freq == Frequencies(FindWords(Lower(text)))
           scored == ScoreSentences(freq, sents, Len(sents))
       IN  /\ sentences' = sents
           /\ IF sents = <<>>
              THEN /\ result' = <<>>
                   /\ pc' = "done"
                   /\ UNCHANGED sentence_scores
              ELSE /\ sentence_scores' = SortByScore(scored, Len(scored))
                   /\ pc' = IF scored = <<>> THEN "selected" ELSE "select_loop"
                   /\ UNCHANGED result
    /\ selected' = <<>>
    /\ total_words' = 0
    /\ next_scored' = 1
    /\ UNCHANGED <<callVars, text, raised, clientVars, chunkVars, mergeVars, backendVars>>

\* one iteration of for _, s in sentence_scores, with its break
SelectIterate ==
    /\ pc = "select_loop"
    /\ LET s == sentence_scores[next_scored].s
           w == Len(PySplit(s))
           take == Accepts(total_words, w, args.max_length)
           total == IF take THEN total_words + w ELSE total_words
       IN  /\ selected' = IF take THEN Append(selected, s) ELSE selected
           /\ total_words' = total
           /\ pc' = IF total >= args.max_length \/ next_scored = Len(sentence_scores)
                    THEN "selected" ELSE "select_loop"
    /\ next_scored' = next_scored + 1
    /\ UNCHANGED <<callVars, text, result, raised, clientVars, chunkVars,
                   sentences, sentence_scores, mergeVars, backendVars>>

\* the fallback, the join, and the deduplicator on the way out
ExtractiveReturn ==
    /\ pc = "selected"
    /\ selected' = SelectedOrFirst(selected, sentences)
    /\ result' = DeduplicateSentences(Join(<<" ">>, selected'))
    /\ pc' = "done"
    /\ UNCHANGED <<callVars, text, raised, clientVars, chunkVars,
                   sentences, sentence_scores, total_words, next_scored,
                   mergeVars, backendVars>>

NextExtract == ExtractiveEnter \/ SelectIterate \/ ExtractiveReturn

SpecExtract == InitExtract /\ [][NextExtract]_vars

(***************************************************************************)
(* A client that calls summarize_text.                                     *)
(***************************************************************************)

Init ==
    /\ entry = "summarize_text"
    /\ pc = "summarize_text"
    /\ text \in BlankTexts \cup FacadeShortTexts \cup FacadeLongTexts
    /\ \E mode \in {"extractive", "abstractive", "unknown"},
          provider \in {None, "OPENAI", "TRANSFORMERS"},
          len \in LengthChoices,
          tuning \in Tunings :
          args = [mode |-> mode, provider |-> provider,
                  min_length |-> len[1], max_length |-> len[2],
                  temperature |-> "0.2", openai_model |-> "gpt-4o-mini",
                  num_beams |-> tuning.num_beams,
                  no_repeat_ngram_size |-> tuning.no_repeat_ngram_size,
                  length_penalty |-> tuning.length_penalty,
                  max_words |-> None, overlap_words |-> None]
    /\ pipe \in {None, PreferredModel}
    /\ result = None
    /\ prev = None
    /\ round = 1
    /\ NoLocals

\* text = text.strip(), the empty-input return, and the dispatch on mode
SummarizeText ==
    /\ pc = "summarize_text"
    /\ text' = Strip(text)
    /\ pc' = Dispatch(text', args.mode, args.provider)
    /\ result' = IF pc' = "done" THEN <<>> ELSE result
    /\ raised' = IF pc' = "raised" THEN UnknownMode(args.mode) ELSE raised
    /\ UNCHANGED <<callVars, clientVars, chunkVars, extractVars, mergeVars, backendVars>>

\* _summarize_abstractive_openai and the deduplicator around it: the key is
\* set or not, and the completion returns or raises
SummarizeOpenAI ==
    /\ pc = "_summarize_abstractive_openai"
    /\ \/ /\ raised' = MissingKey
          /\ pc' = "raised"
          /\ UNCHANGED <<result, calls>>
       \/ /\ calls' = Append(calls, Completion(text, args, None))
          /\ raised' = BackendError("openai")
          /\ pc' = "raised"
          /\ UNCHANGED result
       \/ \E r \in GeneratedTexts :
             /\ calls' = Append(calls, Completion(text, args, r))
             /\ result' = DeduplicateSentences(Strip(r))
             /\ pc' = "done"
             /\ UNCHANGED raised
    /\ UNCHANGED <<callVars, text, clientVars, chunkVars, extractVars, mergeVars, pipe>>

\* pipe = _get_transformer_pipeline(), then the call of _chunk_text with
\* max_words=450, overlap_words=60
GetPipeline ==
    /\ pc = "_summarize_abstractive_transformers"
    /\ IF pipe # None
       THEN /\ pc' = "_chunk_text"
            /\ UNCHANGED <<pipe, calls, raised>>
       ELSE \/ /\ raised' = BackendError("transformers")
               /\ pc' = "raised"
               /\ UNCHANGED <<pipe, calls>>
            \/ /\ pipe' = PreferredModel
               /\ calls' = Append(calls, Construction(PreferredModel, TRUE))
               /\ pc' = "_chunk_text"
               /\ UNCHANGED raised
            \/ /\ pipe' = LighterModel
               /\ calls' = calls \o <<Construction(PreferredModel, FALSE),
                                      Construction(LighterModel, TRUE)>>
               /\ pc' = "_chunk_text"
               /\ UNCHANGED raised
            \/ /\ calls' = calls \o <<Construction(PreferredModel, FALSE),
                                      Construction(LighterModel, FALSE)>>
               /\ raised' = BackendError(LighterModel)
               /\ pc' = "raised"
               /\ UNCHANGED pipe
    /\ args' = [args EXCEPT !.max_words = ChunkMaxWords,
                            !.overlap_words = ChunkOverlapWords]
    /\ UNCHANGED <<entry, text, result, clientVars, chunkVars, extractVars, mergeVars>>

\* _chunk_text returns to _summarize_abstractive_transformers: outputs = []
ChunksCut ==
    /\ pc = "chunk_loop"
    /\ loop_i >= Len(words)
    /\ entry # "_chunk_text"
    /\ outputs' = <<>>
    /\ next_chunk' = 1
    /\ pc' = IF chunks = <<>> THEN "combine" ELSE "chunk_calls"
    /\ UNCHANGED <<callVars, text, result, raised, clientVars, chunkVars,
                   extractVars, combined, backendVars>>

\* one iteration of for c in chunks: the call of the pipeline with the bounds
\* adapted to the chunk, which returns or raises
SummarizeChunk ==
    /\ pc = "chunk_calls"
    /\ LET c == chunks[next_chunk]
           c_words == Len(PySplit(c))
           local_max == LocalMax(c_words, args.max_length)
           local_min == LocalMin(c_words, args.min_length, args.max_length)
       IN  \/ \E res \in GeneratedTexts :
                 /\ calls' = Append(calls, Invocation("chunk", c, local_min, local_max,
                                                      args.num_beams, args, res))
                 /\ outputs' = Append(outputs, Strip(res))
                 /\ pc' = AfterChunk(FALSE, next_chunk, Len(chunks))
           \/ /\ calls' = Append(calls, Invocation("chunk", c, local_min, local_max,
                                                   args.num_beams, args, None))
              /\ outputs' = Append(outputs, FirstSentences(c))
              /\ pc' = AfterChunk(TRUE, next_chunk, Len(chunks))
    /\ next_chunk' = next_chunk + 1
    /\ UNCHANGED <<callVars, text, result, raised, clientVars, chunkVars,
                   extractVars, combined, pipe>>

\* combined = "\n\n".join(outputs), and the second pass when there is more
\* than one output, which returns or raises
Refine ==
    /\ pc = "combine"
    /\ LET joined == Join(<<"\n", "\n">>, outputs)
       IN  IF Len(outputs) > 1
           THEN \/ \E res \in GeneratedTexts :
                      /\ calls' = Append(calls,
                             Invocation("refine", joined, args.min_length, args.max_length,
                                        RefineBeams(args.num_beams), args, res))
                      /\ combined' = Strip(res)
                \/ /\ calls' = Append(calls,
                          Invocation("refine", joined, args.min_length, args.max_length,
                                     RefineBeams(args.num_beams), args, None))
                   /\ combined' = joined
           ELSE /\ combined' = joined
                /\ UNCHANGED calls
    /\ pc' = "combined"
    /\ UNCHANGED <<callVars, text, result, raised, clientVars, chunkVars,
                   extractVars, next_chunk, outputs, pipe>>

\* return _deduplicate_sentences(combined)
SummarizeTransformersReturn ==
    /\ pc = "combined"
    /\ result' = DeduplicateSentences(combined)
    /\ pc' = "done"
    /\ UNCHANGED <<callVars, text, raised, clientVars, chunkVars, extractVars,
                   mergeVars, backendVars>>

Next ==
    \/ SummarizeText
    \/ ExtractiveEnter \/ SelectIterate \/ ExtractiveReturn
    \/ SummarizeOpenAI
    \/ GetPipeline
    \/ ChunkEnter \/ ChunkIterate \/ ChunksCut
    \/ SummarizeChunk \/ Refine \/ SummarizeTransformersReturn

Spec == Init /\ [][Next]_vars

(***************************************************************************)
(* A client that calls _summarize_abstractive_transformers(text,           *)
(* min_length, max_length) with the defaults of its other parameters, on a *)
(* text of one chunk and with the pipeline built.                          *)
(***************************************************************************)

\* most words of such a text
MaxChunkWords == 90

\* min_length and max_length are multiples of LengthStep, from -LengthStep
\* to LengthStep * MaxLengthSteps
LengthStep == 7

MaxLengthSteps == 9

Lengths == {LengthStep * k : k \in (-1)..MaxLengthSteps}

InitTransformers ==
    /\ entry = "_summarize_abstractive_transformers"
    /\ pc = "_summarize_abstractive_transformers"
    /\ text \in {WordsText(n) : n \in 1..MaxChunkWords}
    /\ \E lo \in Lengths, hi \in Lengths :
          args = [min_length |-> lo, max_length |-> hi,
                  num_beams |-> 4, no_repeat_ngram_size |-> 3,
                  length_penalty |-> "1.1",
                  max_words |-> None, overlap_words |-> None]
    /\ pipe = PreferredModel
    /\ result = None
    /\ prev = None
    /\ round = 1
    /\ NoLocals

NextTransformers ==
    \/ GetPipeline
    \/ ChunkEnter \/ ChunkIterate \/ ChunksCut
    \/ SummarizeChunk \/ Refine \/ SummarizeTransformersReturn

SpecTransformers == InitTransformers /\ [][NextTransformers]_vars

(***************************************************************************)
(* Claims about the deduplicator                                           *)
(***************************************************************************)

\* C1: applying _deduplicate_sentences to its own output returns that output
\* unchanged, whatever the input text.
C1_Idempotent ==
    (round = 2 /\ pc = "done") => result = prev

\* the sentence units of a text: the non-empty trimmed pieces of the split
Units(t) ==
    LET trimmed == [k \in 1..Len(ReSplit(t)) |-> Strip(ReSplit(t)[k])]
    IN  SelectSeq(trimmed, LAMBDA u : u # <<>>)

\* the units no earlier unit equals once both are lowercased, in their order
FirstOccurrences(u) ==
    LET keep == {i \in 1..Len(u) : \A j \in 1..(i - 1) : Lower(u[j]) # Lower(u[i])}
        at == Ascending(keep, 1, Len(u))
    IN  [k \in 1..Len(at) |-> u[at[k]]]

\* C2: the deduplicator returns the space-joined subsequence of the trimmed
\* units whose lowercased text no earlier unit has: the first occurrence of
\* each unit is kept, later ones are dropped, and the order is preserved.
C2_FirstOccurrenceKept ==
    pc = "done" => result = Join(<<" ">>, FirstOccurrences(Units(text)))

\* a unit was dropped that differs from its first occurrence only in case,
\* and the example "A. b. A. c." has returned "A. b. c."
C2_Witness ==
    /\ pc = "done"
    /\ \/ /\ text = DedupExample
          /\ result = <<"A", ".", " ", "b", ".", " ", "c", ".">>
       \/ /\ Len(text) <= MaxLen
          /\ \E i, j \in 1..Len(Units(text)) :
                /\ i < j
                /\ Units(text)[i] # Units(text)[j]
                /\ Lower(Units(text)[i]) = Lower(Units(text)[j])
          /\ Len(FirstOccurrences(Units(text))) >= 2

(***************************************************************************)
(* Claims about the chunker                                                *)
(***************************************************************************)

\* the word positions (1-based) that chunk c holds
Positions(c) == (starts[c] + 1)..(starts[c] + Len(PySplit(chunks[c])))

\* _chunk_text has returned
Chunked == entry = "_chunk_text" /\ pc = "done"

\* C3: with max_words = 450 and overlap_words = 60 every word position of the
\* whitespace-tokenized text lies in a returned chunk, which holds that word
\* there; the chunks start at increasing positions, 390 apart, and
\* consecutive chunks leave no position between them uncovered.
C3_Coverage ==
    (/\ Chunked
     /\ args.max_words = ChunkMaxWords
     /\ args.overlap_words = ChunkOverlapWords)
    => /\ Len(starts) = Len(result)
       /\ UNION {Positions(c) : c \in 1..Len(result)} = 1..Len(PySplit(text))
       /\ \A c \in 1..Len(result) :
             /\ result[c] # <<>>
             /\ PySplit(result[c]) =
                    SubSeq(PySplit(text), starts[c] + 1, starts[c] + Len(PySplit(result[c])))
       /\ \A c \in 1..(Len(result) - 1) :
             /\ starts[c + 1] = starts[c] + 390
             /\ starts[c + 1] <= starts[c] + Len(PySplit(result[c]))

\* a text of more than two windows was chunked with (450, 60), and the last
\* chunk came out shorter than the window
C3_Witness ==
    /\ Chunked
    /\ args.max_words = ChunkMaxWords
    /\ args.overlap_words = ChunkOverlapWords
    /\ Len(result) >= 3
    /\ Len(PySplit(result[Len(result)])) < ChunkMaxWords

\* number of word positions chunks c and c + 1 share
Shared(c) == Cardinality(Positions(c) \cap Positions(c + 1))

\* every pair of consecutive chunks shares exactly overlap_words words, but
\* for the pair that ends in the final chunk when that chunk is shorter than
\* max_words
OverlapExact ==
    \A c \in 1..(Len(result) - 1) :
        \/ Shared(c) = args.overlap_words
        \/ /\ c + 1 = Len(result)
           /\ Len(PySplit(result[c + 1])) < args.max_words

\* C4 as claimed: for any max_words and overlap_words every pair of
\* consecutive chunks shares exactly overlap_words words, except possibly the
\* pair whose second chunk is the final, shorter chunk.
C4_OverlapAnyWindow == Chunked => OverlapExact

\* the windows for which a chunk cut short by the end of the text is always
\* the last or the last but one: 0 <= overlap_words < max_words and
\* 2 * overlap_words <= max_words + 1 (so every overlap of at most half the
\* window)
NarrowOverlap ==
    /\ 0 <= args.overlap_words
    /\ args.overlap_words < args.max_words
    /\ 2 * args.overlap_words <= args.max_words + 1

\* C4 as amended: for 0 <= overlap_words < max_words with
\* 2 * overlap_words <= max_words + 1, every pair of consecutive chunks
\* shares exactly overlap_words words, except possibly the pair whose second
\* chunk is the final, shorter chunk.
C4_OverlapNarrowWindow == (Chunked /\ NarrowOverlap) => OverlapExact

\* three or more chunks were cut with a positive overlap in such a window, and the first two share exactly that many words
C4_Witness ==
    /\ Chunked
    /\ NarrowOverlap
    /\ args.overlap_words >= 1
    /\ Len(result) >= 3
    /\ Shared(1) = args.overlap_words

(***************************************************************************)
(* Claims about the extractive selector                                    *)
(***************************************************************************)

\* C5: for a text that holds a sentence (a character that is not
\* whitespace), whatever min_length and max_length are, _summarize_extractive
\* returns a non-empty string.
C5_NonEmpty ==
    (entry = "_summarize_extractive" /\ pc = "done" /\ Strip(text) # <<>>)
    => (result # None /\ Len(result) > 0)

\* a text whose sentences hold no word at all was summarized: nothing was
\* scored, and the first sentences were returned
C5_Witness ==
    /\ entry = "_summarize_extractive"
    /\ pc = "done"
    /\ sentences # <<>>
    /\ sentence_scores = <<>>
    /\ Len(result) > 0

\* the step in which the greedy loop accepts a sentence
SelectorAccepts == pc = "select_loop" /\ Len(selected') = Len(selected) + 1

\* the loop is over, and the fallback has not replaced what it selected
LoopOver == pc = "selected"

\* C6 as claimed: for any max_length the running word total before each
\* accepted sentence is < max_length, and the final total is <= max_length
\* unless exactly one sentence was accepted.
C6_BudgetAnyLength ==
    /\ [][SelectorAccepts => total_words < args.max_length]_vars
    /\ [](LoopOver => (total_words <= args.max_length \/ Len(selected) = 1))

\* C6 as amended: the same for any max_length >= 1.
C6_BudgetPositiveLength ==
    /\ [][(args.max_length >= 1 /\ SelectorAccepts)
            => total_words < args.max_length]_vars
    /\ [](( args.max_length >= 1 /\ LoopOver)
            => (total_words <= args.max_length \/ Len(selected) = 1))

\* the loop accepted a sentence, skipped one that did not fit, and accepted a
\* third that filled the budget exactly
C6_Witness ==
    /\ LoopOver
    /\ args.max_length >= 1
    /\ Len(selected) = 2
    /\ next_scored = 4
    /\ total_words = args.max_length

(***************************************************************************)
(* Claims about summarize_text and the chunked abstractive path            *)
(***************************************************************************)

\* C7: for a text that is empty or all whitespace summarize_text returns the
\* empty string at once, for every mode and provider: it raises nothing,
\* enters no summarizer, and neither constructs nor invokes a backend.
C7_EmptyInput ==
    (entry = "summarize_text" /\ Strip(text) = <<>>)
    => /\ pc \in {"summarize_text", "done"}
       /\ pc = "done" => result = <<>>
       /\ pc = "summarize_text" => result = None
       /\ raised = None
       /\ calls = <<>>
       /\ sentences = <<>>
       /\ chunks = <<>>

\* a call with an unknown mode and an all-whitespace text has returned ""
C7_Witness ==
    /\ entry = "summarize_text"
    /\ pc = "done"
    /\ text = <<>>
    /\ args.mode = "unknown"
    /\ result = <<>>

\* the mode is neither "extractive" nor "abstractive", and summarize_text has
\* taken its step
BadModeCall ==
    /\ entry = "summarize_text"
    /\ pc # "summarize_text"
    /\ args.mode \notin {"extractive", "abstractive"}

\* the call failed with the ValueError that names the mode, and nothing was
\* summarized and no backend constructed or invoked
FailedOnMode ==
    /\ pc = "raised"
    /\ raised = [type |-> "ValueError", message |-> <<"Unknown mode: ", args.mode>>]
    /\ result = None
    /\ calls = <<>>
    /\ sentences = <<>>
    /\ chunks = <<>>

\* C8 as claimed: every call of summarize_text with a mode other than
\* "extractive" and "abstractive" fails with the error naming the mode.
C8_BadModeFails == BadModeCall => FailedOnMode

\* C8 as amended: every such call whose text holds a character that is not
\* whitespace fails with the error naming the mode; on an empty or
\* all-whitespace text the call returns "" instead.
C8_BadModeFailsOnText ==
    BadModeCall => IF text = <<>> THEN (pc = "done" /\ result = <<>> /\ raised = None)
                   ELSE FailedOnMode

\* a call with mode "unknown" and a text has raised the ValueError
C8_Witness ==
    /\ BadModeCall
    /\ text # <<>>
    /\ raised = UnknownMode("unknown")

\* the call is in _summarize_abstractive_transformers, on a text that is
\* not empty, and has its pipeline
InChunkedPath ==
    /\ entry = "summarize_text"
    /\ text # <<>>
    /\ args.mode = "abstractive"
    /\ args.provider # "OPENAI"
    /\ pipe # None
    /\ pc \notin {"summarize_text", "_summarize_abstractive_transformers"}

\* the invocations of the pipeline so far, in order
Invocations == SelectSeq(calls, LAMBDA c : c.fn = "pipe")

ChunkInvocations == SelectSeq(Invocations, LAMBDA c : c.stage = "chunk")

RefineInvocations == SelectSeq(Invocations, LAMBDA c : c.stage = "refine")

\* C9: whichever invocations of the pipeline raise, per chunk or in the
\* second pass, _summarize_abstractive_transformers raises nothing: every
\* chunk is still invoked, in its turn, and has its output, and the call
\* returns a string.
C9_FailuresNotSurfaced ==
    InChunkedPath
    => /\ raised = None
       /\ pc # "raised"
       /\ pc \in {"combine", "combined", "done"}
             => /\ Len(outputs) = Len(chunks)
                /\ Len(ChunkInvocations) = Len(chunks)
                /\ \A c \in 1..Len(chunks) : ChunkInvocations[c].text = chunks[c]
       /\ pc = "done" => result # None

\* every invocation raised, three per-chunk ones and the second pass, and a
\* text was returned
C9_Witness ==
    /\ InChunkedPath
    /\ pc = "done"
    /\ Len(chunks) = 3
    /\ Len(Invocations) = 4
    /\ \A c \in 1..4 : Invocations[c].returned = None
    /\ Len(result) > 0

\* C10: the pipeline is invoked once more, after all the per-chunk
\* invocations, exactly if more than one chunk was cut; that invocation gets
\* the combined text, the caller's min_length, max_length,
\* no_repeat_ngram_size and length_penalty, and num_beams = max(4, num_beams).
\* The call returns the deduplicator's result on the refined text if that
\* invocation returned, on the combined text if it raised or was not made.
C10_SecondPass ==
    (InChunkedPath /\ pc = "done")
    => LET joined == Join(<<"\n", "\n">>, outputs)
           n == Len(Invocations)
       IN  /\ Len(RefineInvocations) = (IF Len(chunks) > 1 THEN 1 ELSE 0)
           /\ n = Len(chunks) + Len(RefineInvocations)
           /\ \A c \in 1..Len(chunks) : Invocations[c].stage = "chunk"
           /\ Len(chunks) > 1
                 => /\ Invocations[n] =
                          [fn |-> "pipe", stage |-> "refine", text |-> joined,
                           min_length |-> args.min_length,
                           max_length |-> args.max_length,
                           num_beams |-> IF args.num_beams > 4 THEN args.num_beams ELSE 4,
                           no_repeat_ngram_size |-> args.no_repeat_ngram_size,
                           length_penalty |-> args.length_penalty,
                           returned |-> Invocations[n].returned]
                    /\ result = DeduplicateSentences(
                                    IF Invocations[n].returned # None
                                    THEN Strip(Invocations[n].returned) ELSE joined)
           /\ Len(chunks) <= 1 => result = DeduplicateSentences(joined)

\* a text of three chunks was summarized by a caller asking for two beams,
\* and the second pass, made with four, returned the text that was returned
C10_Witness ==
    /\ InChunkedPath
    /\ pc = "done"
    /\ Len(chunks) = 3
    /\ args.num_beams = 2
    /\ Len(RefineInvocations) = 1
    /\ RefineInvocations[1].num_beams = 4
    /\ RefineInvocations[1].returned # None
    /\ result = DeduplicateSentences(RefineInvocations[1].returned)

\* the entry of a chunk in the merge: the trimmed output of its invocation,
\* or its first two sentences when the invocation raised
Entry(c, returned) ==
    IF returned # None THEN Strip(returned)
    ELSE LET sents == ReSplit(c)
         IN  Strip(Join(<<" ">>, SubSeq(sents, 1, Min(2, Len(sents)))))

\* the chunks whose invocation is over
Summarized == IF pc = "chunk_calls" THEN next_chunk - 1 ELSE Len(chunks)

\* C11: the pipeline is invoked once per chunk, in chunk order, before any
\* other invocation; outputs holds one entry per chunk in that order, the
\* trimmed output of the chunk's invocation or, if it raised, the first two
\* sentences of the chunk, whatever happened to the other chunks; and the
\* combined text is the entries joined by blank lines.
C11_ChunkOrder ==
    (InChunkedPath /\ pc \in {"chunk_calls", "combine", "combined", "done"})
    => /\ Len(outputs) = Summarized
       /\ Len(ChunkInvocations) = Summarized
       /\ \A c \in 1..Summarized :
             /\ Invocations[c].stage = "chunk"
             /\ Invocations[c].text = chunks[c]
             /\ outputs[c] = Entry(chunks[c], Invocations[c].returned)
       /\ pc \in {"combined", "done"}
             => IF Len(chunks) > 1
                THEN Invocations[Len(chunks) + 1].text = Join(<<"\n", "\n">>, outputs)
                ELSE combined = Join(<<"\n", "\n">>, outputs)

\* of three chunks the second failed and has its first two sentences, which
\* are not the whole chunk, between the outputs of the first and the third
C11_Witness ==
    /\ InChunkedPath
    /\ pc = "done"
    /\ Len(chunks) = 3
    /\ Invocations[1].returned = <<"s", ".">>
    /\ Invocations[2].returned = None
    /\ Invocations[3].returned # None
    /\ Invocations[3].returned # <<"s", ".">>
    /\ outputs = << <<"s", ".">>, Entry(chunks[2], None), Strip(Invocations[3].returned) >>
    /\ Len(outputs[2]) < Len(chunks[2])
    /\ Len(outputs[2]) > 0

(***************************************************************************)
(* The order of the extractive selection                                   *)
(***************************************************************************)

\* the sentences that were scored, those that hold a word, in document order
ScoredInDocument ==
    SelectSeq(sentences, LAMBDA u : FindWords(Lower(u)) # <<>>)

\* two scores are the same
Tied(x, y) == x = y \/ (ScoreGE(x, y) /\ ScoreGE(y, x))

\* the score the scored sentence u was given
ScoreOf(u) ==
    sentence_scores[CHOOSE j \in 1..Len(sentence_scores) : sentence_scores[j].s = u].score

\* sentence_scores is in non-increasing score order
ScoreOrdered ==
    \A j, k \in 1..Len(sentence_scores) :
        j < k => ScoreGE(sentence_scores[j].score, sentence_scores[k].score)

\* the sentences of one score are in sentence_scores as they are in the
\* document
TiesInDocumentOrder ==
    \A j \in 1..Len(sentence_scores) :
        LET x == sentence_scores[j].score
            tied == SelectSeq(sentence_scores, LAMBDA e : Tied(e.score, x))
        IN  [k \in 1..Len(tied) |-> tied[k].s]
              = SelectSeq(ScoredInDocument, LAMBDA u : Tied(ScoreOf(u), x))

\* one iteration of the loop looks at the next sentence of sentence_scores,
\* appends it to selected or skips it, and after a skip goes on to the next
\* sentence if there is one
InSelectionOrder ==
    pc = "select_loop"
    => /\ next_scored' = next_scored + 1
       /\ \/ selected' = Append(selected, sentence_scores[next_scored].s)
          \/ /\ selected' = selected
             /\ next_scored < Len(sentence_scores) => pc' = "select_loop"

\* C12: the selector goes through the scored sentences in non-increasing
\* score order, the sentences of one score in document order; it accepts or
\* skips each, and goes on after a skip; what it accepted is joined in that
\* order and handed to the deduplicator.
C12_SelectionOrder ==
    /\ []((entry = "_summarize_extractive" /\ pc \in {"select_loop", "selected", "done"}
           /\ sentences # <<>>)
          => /\ ScoreOrdered
             /\ TiesInDocumentOrder
             /\ Len(sentence_scores) = Len(ScoredInDocument)
             /\ pc = "done" => result = DeduplicateSentences(Join(<<" ">>, selected)))
    /\ [][entry = "_summarize_extractive" => InSelectionOrder]_vars

\* the best sentence was accepted, the second did not fit and was skipped,
\* and the third was accepted: the result holds the first and the third, and
\* the third stands before the first in the document
C12_Witness ==
    /\ entry = "_summarize_extractive"
    /\ pc = "done"
    /\ Len(sentence_scores) = 3
    /\ next_scored = 4
    /\ selected = <<sentence_scores[1].s, sentence_scores[3].s>>
    /\ sentence_scores[2].s \notin {selected[1], selected[2]}
    /\ ~Tied(sentence_scores[1].score, sentence_scores[3].score)
    /\ \E j, k \in 1..Len(sentences) :
          j < k /\ sentences[j] = selected[2] /\ sentences[k] = selected[1]
    /\ result = Join(<<" ">>, selected)

(***************************************************************************)
(* The length bounds of the per-chunk invocations                          *)
(***************************************************************************)

\* floor(n * 0.6)
SixTenths(n) == CHOOSE k \in 0..n : 10 * k <= 6 * n /\ 6 * n < 10 * (k + 1)

\* the bounds handed to the invocation inv are those the claim gives for a
\* chunk of inv's text and the caller's lengths
BoundsAsClaimed(inv) ==
    LET c_words == Len(PySplit(inv.text))
        capped == IF args.max_length < SixTenths(c_words)
                  THEN args.max_length ELSE SixTenths(c_words)
        ceiling == IF args.max_length > 20 THEN args.max_length ELSE 20
    IN  /\ c_words >= 1
        /\ inv.max_length = (IF capped > 20 THEN capped ELSE 20)
        /\ 20 <= inv.max_length
        /\ inv.max_length <= ceiling
        /\ 5 <= inv.min_length
        /\ inv.min_length < inv.max_length

\* C13: for every chunk, of one word or more, and every min_length and
\* max_length of the caller, the per-chunk invocation gets local_max =
\* max(20, min(max_length, floor(c_words * 0.6))), which lies between 20 and
\* max(20, max_length), and a local_min with 5 <= local_min < local_max.
C13_LocalBounds ==
    \A c \in 1..Len(ChunkInvocations) : BoundsAsClaimed(ChunkInvocations[c])

\* a chunk long enough, and lengths large enough, that both bounds were
\* adapted to the chunk: local_max is below max_length and above 20,
\* local_min is below min_length and above 5
C13_Witness ==
    /\ entry = "_summarize_abstractive_transformers"
    /\ Len(ChunkInvocations) = 1
    /\ ChunkInvocations[1].max_length > 20
    /\ ChunkInvocations[1].max_length < args.max_length
    /\ ChunkInvocations[1].min_length > 5
    /\ ChunkInvocations[1].min_length < args.min_length

====
